---- MODULE Spec2Model ----
(***************************************************************************)
(* A model of bin/integrate_anndata.py: re-indexing of observation         *)
(* identifiers, concatenation of annotation matrices onto the expression   *)
(* matrix, and the feature intersection of several datasets.               *)
(*                                                                         *)
(* A string the code inspects character by character (an observation       *)
(* identifier, an annotation address) is a sequence of tokens; a string    *)
(* the code only compares is a TLA+ string.  A DataFrame is a record of    *)
(* its column labels and its rows; a var table is a record of its index    *)
(* and its columns, a missing cell being "NaN".                            *)
(***************************************************************************)
EXTENDS Integers, Sequences, FiniteSets, TLC

VARIABLES
    adata,        \* the AnnData object the caller holds
    orig,         \* that object as it was first read
    call,         \* the last call on it: its name, its parameters, its argument
                  \* object on entry and on return, its return value, its exception
    ncalls,       \* calls made so far
    shifts,       \* the offsets of the reindex calls that returned, in order
    paths,        \* intersect_features: the input datasets, in argument order
    save_h5ad,    \* write_anndata's save_h5ad option for the run
    pc,           \* intersect_features: the statement the run is at
    k,            \* intersect_features: the index of the path being processed
    var_indices,  \* get_feature_intersection: the var indices read so far
    var_intersect,\* the intersection returned by get_feature_intersection
    cur,          \* intersect_features: the dataset in memory
    files,        \* the output files that exist
    log           \* the I/O events of the run, in order

obj_vars == <<adata, orig, call, ncalls, shifts>>
run_vars == <<paths, save_h5ad, pc, k, var_indices, var_intersect, cur, files, log>>
vars == <<adata, orig, call, ncalls, shifts,
          paths, save_h5ad, pc, k, var_indices, var_intersect, cur, files, log>>

(***************************************************************************)
(* Bounds of the model.                                                    *)
(***************************************************************************)
MaxObs == 2        \* observations of a dataset
MaxIdLen == 2      \* characters of an observation identifier
MaxCalls == 2      \* transformations applied one after the other
MaxFeatures == 2   \* features of a dataset before concatenation
MaxPaths == 2      \* datasets given to intersect_features

(***************************************************************************)
(* Generic helpers.                                                        *)
(***************************************************************************)
Range(s) == {s[i] : i \in 1..Len(s)}

SeqsUpTo(S, n) == UNION {[1..m -> S] : m \in 0..n}

NoDup(s) == \A i, j \in 1..Len(s) : s[i] = s[j] => i = j

(***************************************************************************)
(* int(str) and str(int), as Index.astype(int) and .astype(str) apply them *)
(* to each identifier.  The identifiers of the model are written with the  *)
(* characters of IdChars; int() of such a string accepts an optional sign  *)
(* followed by one or more decimal digits and raises ValueError otherwise. *)
(***************************************************************************)
DigitChars == <<"0", "1", "2", "3", "4", "5", "6", "7", "8", "9">>

Digits == Range(DigitChars)

DigitVal(c) == (CHOOSE i \in 1..10 : DigitChars[i] = c) - 1

IdChars == {"0", "7", "+"}

RECURSIVE DigitsVal(_)
DigitsVal(s) ==
    IF Len(s) = 0 THEN 0
    ELSE 10 * DigitsVal(SubSeq(s, 1, Len(s) - 1)) + DigitVal(s[Len(s)])

HasSign(s) == Len(s) > 0 /\ s[1] \in {"+", "-"}

Unsigned(s) == IF HasSign(s) THEN Tail(s) ELSE s

IsIntLiteral(s) ==
    /\ Len(Unsigned(s)) >= 1
    /\ \A i \in 1..Len(Unsigned(s)) : Unsigned(s)[i] \in Digits

ParseInt(s) ==
    IF HasSign(s) /\ s[1] = "-" THEN 0 - DigitsVal(Unsigned(s))
    ELSE DigitsVal(Unsigned(s))

RECURSIVE NatToStr(_)
NatToStr(n) ==
    IF n < 10 THEN <<DigitChars[n + 1]>>
    ELSE NatToStr(n \div 10) \o <<DigitChars[(n % 10) + 1]>>

\* A str() that writes the sign of every number, as format(n, "+d") does.
IntToStrSigned(n) ==
    IF n < 0 THEN <<"-">> \o NatToStr(0 - n) ELSE <<"+">> \o NatToStr(n)

IntToStr(n) == IF n < 0 THEN <<"-">> \o NatToStr(0 - n) ELSE NatToStr(n)

(***************************************************************************)
(* Datasets.  X is kept with its representation (csr, csc or dense) and    *)
(* its rows; every entry of the sample matrix is different, so that a      *)
(* moved or changed column shows.                                          *)
(***************************************************************************)
GeneIds == <<"g1", "g2", "g3", "g4">>

Labels == <<"A", "B">>

XKinds == {"csr", "csc", "dense"}

SampleX(r, c) == [i \in 1..r |-> [j \in 1..c |-> (i - 1) * c + j]]

SampleVar(c) ==
    [index |-> SubSeq(GeneIds, 1, c),
     cols |-> [n \in {"hv", "symbol"} |->
                 IF n = "hv" THEN [j \in 1..c |-> IF j % 2 = 1 THEN "T" ELSE "F"]
                 ELSE [j \in 1..c |-> "sym"]]]

\* The obsm matrix "abund": two columns, in an order that is not the lexical one.
SampleObsm(r) ==
    [abund |-> [columns |-> <<"B", "A">>,
                values |-> [i \in 1..r |-> <<20 + i, 10 + i>>]],
     empty |-> [columns |-> <<>>, values |-> [i \in 1..r |-> <<>>]],
     clash |-> [columns |-> <<"g1">>, values |-> [i \in 1..r |-> <<30 + i>>]]]

Dataset(ids, labels, kind, c) ==
    [obs_index |-> ids,
     obs |-> [celltype |-> labels],
     X |-> [kind |-> kind, vals |-> SampleX(Len(ids), c)],
     var |-> SampleVar(c),
     obsm |-> SampleObsm(Len(ids)),
     uns |-> "uns"]

NoData == [none |-> TRUE]

NoCall == [op |-> "none", err |-> "none"]

Called(op) == call.op = op

Returned(op) == call.op = op /\ call.err = "none"

(***************************************************************************)
(* reindex_anndata(data, offset, no_save=True) on an AnnData object.       *)
(***************************************************************************)
AllIntLiterals(ids) == \A i \in 1..Len(ids) : IsIntLiteral(ids[i])

\* The offset subtracted instead of added.
ShiftIndexSub(ids, offset) ==
    [i \in 1..Len(ids) |-> IntToStr(ParseInt(ids[i]) - offset)]

\* (adata.obs.index.astype(int) + offset).astype(str)
ShiftIndex(ids, offset) ==
    [i \in 1..Len(ids) |-> IntToStr(ParseInt(ids[i]) + offset)]

\* The object after line 46: the assignment is to the argument's own obs.
reindex_anndata(data, offset) ==
    [data EXCEPT !.obs_index = ShiftIndex(data.obs_index, offset)]

Offsets == {-8, 8}

ReindexAnndata(offset) ==
    /\ ncalls < MaxCalls
    /\ call.err = "none"
    /\ ncalls' = ncalls + 1
    /\ IF AllIntLiterals(adata.obs_index)
       THEN /\ adata' = reindex_anndata(adata, offset)
            /\ shifts' = Append(shifts, offset)
            /\ call' = [op |-> "reindex_anndata", args |-> [offset |-> offset],
                        before |-> adata,
                        after |-> reindex_anndata(adata, offset),
                        ret |-> reindex_anndata(adata, offset),
                        err |-> "none"]
       ELSE /\ call' = [op |-> "reindex_anndata", args |-> [offset |-> offset],
                        before |-> adata, after |-> adata,
                        ret |-> NoData, err |-> "ValueError"]
            /\ UNCHANGED <<adata, shifts>>
    /\ UNCHANGED <<orig, run_vars>>

IdStrings == SeqsUpTo(IdChars, MaxIdLen)

RunIdle ==
    /\ paths = <<>>
    /\ save_h5ad = FALSE
    /\ pc = "idle"
    /\ k = 0
    /\ var_indices = <<>>
    /\ var_intersect = <<>>
    /\ cur = NoData
    /\ files = {}
    /\ log = <<>>

\* A dataset of up to MaxObs observations with any identifiers.
InitReindex ==
    /\ \E r \in 1..MaxObs : \E ids \in [1..r -> IdStrings] :
          adata = Dataset(ids, [i \in 1..r |-> "A"], "dense", 1)
    /\ orig = adata
    /\ call = NoCall
    /\ ncalls = 0
    /\ shifts = <<>>
    /\ RunIdle

NextReindex == \E offset \in Offsets : ReindexAnndata(offset)

SpecReindex == InitReindex /\ [][NextReindex]_vars

(***************************************************************************)
(* pandas and numpy operations used by the concatenation.                  *)
(***************************************************************************)
Const(n, v) == [i \in 1..n |-> v]

\* pd.get_dummies(column, dtype="float32"): one column for each label that
\* occurs, in the labels' sorted order, 1 where the row has the label.
get_dummies(col) ==
    LET cats == SelectSeq(Labels, LAMBDA l : l \in Range(col))
    IN  [columns |-> cats,
         values |-> [i \in 1..Len(col) |->
                       [j \in 1..Len(cats) |-> IF col[i] = cats[j] THEN 1 ELSE 0]]]

\* The annotation columns put before the original ones.
hstack_swapped(left, right) == [i \in 1..Len(left) |-> right[i] \o left[i]]

\* np.hstack((left, right)) and scipy.sparse.hstack((left, right)), on rows.
hstack(left, right) == [i \in 1..Len(left) |-> left[i] \o right[i]]

\* "is_{}".format(name), for the names the model uses.
FlagName(name) ==
    CASE name = "gene" -> "is_gene"
      [] name = "celltype" -> "is_celltype"
      [] name = "abund" -> "is_abund"
      [] OTHER -> "is_"

\* frame.assign(**{name: v})
Assign(frame, name, v) ==
    [frame EXCEPT !.cols =
        [n \in (DOMAIN frame.cols) \cup {name} |->
            IF n = name THEN Const(Len(frame.index), v) ELSE frame.cols[n]]]

\* ext_df.columns.to_frame(obs_feature_name).drop(columns=0).assign(**{flag: True}):
\* to_frame takes the name as its index argument, so the frame has the one
\* column 0, which is dropped, and the labels as its index.
NewVarFrame(columns, flag) ==
    [index |-> columns, cols |-> [n \in {flag} |-> Const(Len(columns), "T")]]

\* pd.concat([a, b]): the rows of a then those of b, over the union of the
\* columns, a cell of a column the frame does not have being missing.
ConcatFrames(a, b) ==
    [index |-> a.index \o b.index,
     cols |-> [n \in (DOMAIN a.cols) \cup (DOMAIN b.cols) |->
                 (IF n \in DOMAIN a.cols THEN a.cols[n]
                  ELSE Const(Len(a.index), "NaN"))
                 \o
                 (IF n \in DOMAIN b.cols THEN b.cols[n]
                  ELSE Const(Len(b.index), "NaN"))]]

\* A fillna that leaves the missing cells of the appended rows missing.
FillNaNone(col) == col

\* column.fillna(False)
FillNa(col) == [i \in 1..Len(col) |-> IF col[i] = "NaN" THEN "F" ELSE col[i]]

\* column.dtype == bool: every cell holds True or False.  (A column of True,
\* False and missing cells is of dtype object, and fillna(False) makes it a
\* bool column again.)
IsBoolDtype(col) == \A i \in 1..Len(col) : col[i] \in {"T", "F"}

BoolKeys(frame) == {n \in DOMAIN frame.cols : IsBoolDtype(frame.cols[n])}

FillColumns(frame, names) ==
    [frame EXCEPT !.cols =
        [n \in DOMAIN frame.cols |->
            IF n \in names THEN FillNa(frame.cols[n]) ELSE frame.cols[n]]]

\* csr_matrix(values), csc_matrix(values)
AsSparse(kind, values) == [kind |-> kind, vals |-> values]

(***************************************************************************)
(* concat_matrices and the three annotation sources.  A call yields the    *)
(* exception it raises ("none" if it returns), the dataset it returns and  *)
(* the annotation table it resolved.                                       *)
(***************************************************************************)
NoTable == [none |-> TRUE]

Raise(e, ext) == [err |-> e, ret |-> NoData, ext |-> ext]

\* The assertion of line 175 left out.
ShapesAgreeAlways(data, ext_df) == TRUE

\* adata.shape[0] == ext_df.shape[0]
ShapesAgree(data, ext_df) == Len(data.X.vals) = Len(ext_df.values)

\* Lines 177 to 179: obs_feature_name or obs, and the two flag columns.
FlagNames(obs, feature_name, obs_feature_name) ==
    [prev |-> FlagName(feature_name),
     new |-> FlagName(IF obs_feature_name = "" THEN obs ELSE obs_feature_name)]

concat_matrices(data, ext_df, obs, feature_name, obs_feature_name) ==
    IF ~ShapesAgree(data, ext_df) THEN Raise("AssertionError", ext_df)
    ELSE
    LET flags == FlagNames(obs, feature_name, obs_feature_name)
        X == IF data.X.kind \in {"csr", "csc"}
             THEN [kind |-> data.X.kind,
                   vals |-> hstack(data.X.vals,
                                   AsSparse(data.X.kind, ext_df.values).vals)]
             ELSE [kind |-> "dense", vals |-> hstack(data.X.vals, ext_df.values)]
        stacked == ConcatFrames(Assign(data.var, flags.prev, "T"),
                                NewVarFrame(ext_df.columns, flags.new))
        filled == FillColumns(stacked,
                              {flags.prev, flags.new} \cup BoolKeys(data.var))
    IN  [err |-> "none",
         ret |-> [obs_index |-> data.obs_index,
                  obs |-> data.obs,
                  X |-> X,
                  var |-> filled,
                  obsm |-> data.obsm,
                  uns |-> data.uns],
         ext |-> ext_df]

concat_matrix_from_obs(data, obs, feature_name, obs_feature_name) ==
    IF obs \notin DOMAIN data.obs THEN Raise("KeyError", NoTable)
    ELSE concat_matrices(data, get_dummies(data.obs[obs]), obs,
                         feature_name, obs_feature_name)

concat_matrix_from_obsm(data, obsm, feature_name, obsm_feature_name) ==
    IF obsm \notin DOMAIN data.obsm THEN Raise("KeyError", NoTable)
    ELSE concat_matrices(data, data.obsm[obsm], "celltype",
                         feature_name, obsm_feature_name)

\* A companion file: its obs column "sample" and its obsm matrix q, whose
\* column labels carry the prefix that line 159 removes.
C2LColumns == <<"q05cell_abundance_w_sf_B", "q05cell_abundance_w_sf_A">>

\* columns.str.replace(q.split("_")[0] + "cell_abundance_w_sf_", "")
StripPrefix(label) ==
    CASE label = "q05cell_abundance_w_sf_B" -> "B"
      [] label = "q05cell_abundance_w_sf_A" -> "A"
      [] OTHER -> label

C2LFile(samples) ==
    [obs |-> [sample |-> samples],
     columns |-> C2LColumns,
     values |-> [i \in 1..Len(samples) |-> <<40 + i, 50 + i>>]]

NoFile == [none |-> TRUE]

NoSample == <<>>

\* c2l_adata[c2l_adata.obs[sample[0]] == sample[1]]: the rows kept, in order.
KeptRows(file, sample) ==
    IF sample = NoSample THEN [i \in 1..Len(file.values) |-> i]
    ELSE SelectSeq([i \in 1..Len(file.values) |-> i],
                   LAMBDA i : file.obs[sample[1]][i] = sample[2])

\* h5py.File(c2l_file) of a file that does not exist raises OSError.
concat_matrix_from_cell2location(data, file, sample, feature_name, obs_feature_name) ==
    IF file = NoFile THEN Raise("OSError", NoTable)
    ELSE
    LET kept == KeptRows(file, sample)
        c2l_df == [columns |-> [j \in 1..Len(file.columns) |->
                                   StripPrefix(file.columns[j])],
                   values |-> [n \in 1..Len(kept) |-> file.values[kept[n]]]]
    IN  concat_matrices(data, c2l_df, "celltype", feature_name, obs_feature_name)

(***************************************************************************)
(* concat_features(data, features, no_save=True).  An address is the       *)
(* sequence of its parts: "obs/celltype" is <<"obs", "/", "celltype">> and *)
(* "c2l.h5ad" is <<"c2l", ".h5ad">>.                                       *)
(***************************************************************************)
EndsWith(addr, part) == Len(addr) > 0 /\ addr[Len(addr)] = part

StartsWith(addr, prefix) ==
    Len(addr) >= Len(prefix) /\ SubSeq(addr, 1, Len(prefix)) = prefix

\* features.split("/")[1], after a prefix that ends with the first "/": the
\* parts up to the next "/".  A name of several parts is no key of the model.
SplitSecond(addr) ==
    LET rest == SubSeq(addr, 3, Len(addr))
        stops == {i \in 1..Len(rest) : rest[i] = "/"}
        seg == IF stops = {} THEN rest
               ELSE SubSeq(rest, 1, (CHOOSE i \in stops : \A j \in stops : i <= j) - 1)
    IN  IF Len(seg) = 1 THEN seg[1] ELSE "?"

\* The companion branch taken for every address that ends with .h5ad.
IsCompanionByName(features, file) == EndsWith(features, ".h5ad")

\* features.endswith(".h5ad") and os.path.isfile(features)
IsCompanion(features, file) == EndsWith(features, ".h5ad") /\ file # NoFile

concat_features(data, features, file) ==
    IF IsCompanion(features, file)
    THEN concat_matrix_from_cell2location(data, file, NoSample, "gene", "")
    ELSE IF StartsWith(features, <<"obs", "/">>)
    THEN concat_matrix_from_obs(data, SplitSecond(features), "gene", "")
    ELSE IF StartsWith(features, <<"obsm", "/">>)
    THEN concat_matrix_from_obsm(data, SplitSecond(features), "gene", "")
    ELSE [err |-> "none", ret |-> data, ext |-> NoTable]

(***************************************************************************)
(* The concatenation calls, each on the object the caller holds.  None of  *)
(* them assigns to its argument: the dataset returned is a new object.     *)
(***************************************************************************)
Apply(op, args, res) ==
    /\ ncalls < MaxCalls
    /\ call.err = "none"
    /\ ncalls' = ncalls + 1
    /\ call' = [op |-> op, args |-> args, before |-> adata, after |-> adata,
                ret |-> res.ret, ext |-> res.ext, err |-> res.err]
    /\ adata' = IF res.err = "none" THEN res.ret ELSE adata
    /\ UNCHANGED <<orig, shifts, run_vars>>

Addresses ==
    {<<"obs", "/", "celltype">>, <<"obs", "/", "cluster">>,
     <<"obsm", "/", "abund">>, <<"obsm", "/", "empty">>, <<"obsm", "/", "clash">>,
     <<"c2l", ".h5ad">>, <<"obs", "/", "c2l", ".h5ad">>,
     <<"celltype">>, <<"uns", "/", "abund">>, <<"obsm">>}

\* The companion files of the model: as many rows as the dataset has, or one
\* more, all of sample "s1" but at most one.
SampleColumns(n) ==
    {[i \in 1..n |-> IF i = other THEN "s2" ELSE "s1"] : other \in 0..n}

C2LFiles ==
    {C2LFile(samples) : samples \in SampleColumns(MaxObs) \cup SampleColumns(MaxObs + 1)}

Samples == {NoSample, <<"sample", "s1">>}

FeatureNames == {"gene", "celltype"}

ObsFeatureNames == {"", "abund"}

ConcatFeatures(features, file) ==
    Apply("concat_features", [features |-> features, file |-> file],
          concat_features(adata, features, file))

ConcatMatrixFromObs(obs, feature_name, obs_feature_name) ==
    Apply("concat_matrix_from_obs",
          [obs |-> obs, feature_name |-> feature_name,
           obs_feature_name |-> obs_feature_name],
          concat_matrix_from_obs(adata, obs, feature_name, obs_feature_name))

ConcatMatrixFromObsm(obsm, feature_name, obsm_feature_name) ==
    Apply("concat_matrix_from_obsm",
          [obsm |-> obsm, feature_name |-> feature_name,
           obs_feature_name |-> obsm_feature_name],
          concat_matrix_from_obsm(adata, obsm, feature_name, obsm_feature_name))

ConcatMatrixFromCell2location(file, sample) ==
    Apply("concat_matrix_from_cell2location",
          [file |-> file, sample |-> sample, feature_name |-> "gene",
           obs_feature_name |-> ""],
          concat_matrix_from_cell2location(adata, file, sample, "gene", ""))

\* A dataset of MaxObs observations, identified "0", "1", ..., and
\* MaxFeatures features, with any labels and any representation of X.
InitConcat ==
    /\ \E labels \in [1..MaxObs -> Range(Labels)] : \E kind \in XKinds :
          adata = Dataset([i \in 1..MaxObs |-> IntToStr(i - 1)], labels, kind,
                          MaxFeatures)
    /\ orig = adata
    /\ call = NoCall
    /\ ncalls = 0
    /\ shifts = <<>>
    /\ RunIdle

NextConcat ==
    \/ \E features \in Addresses :
          \E file \in (IF EndsWith(features, ".h5ad")
                       THEN C2LFiles \cup {NoFile} ELSE {NoFile}) :
             ConcatFeatures(features, file)
    \/ \E feature_name \in FeatureNames : \E obs_feature_name \in ObsFeatureNames :
          ConcatMatrixFromObs("celltype", feature_name, obs_feature_name)
    \/ \E obs_feature_name \in ObsFeatureNames :
          ConcatMatrixFromObsm("abund", "gene", obs_feature_name)
    \/ \E file \in C2LFiles : \E sample \in Samples :
          ConcatMatrixFromCell2location(file, sample)
    \/ ConcatMatrixFromCell2location(NoFile, NoSample)

SpecConcat == InitConcat /\ [][NextConcat]_vars

(***************************************************************************)
(* intersect_features over its paths.  A dataset on disk is its var index  *)
(* and its matrix; the input paths have different stems, so that no        *)
(* output replaces another.  Any read or write may fail, and the exception *)
(* ends the run.                                                           *)
(***************************************************************************)
FeatureIds == {"g1", "g2", "g3"}

IdNumber(id) == CHOOSE n \in 1..Len(GeneIds) : GeneIds[n] = id

\* The var indices of the model: unique identifiers, in any order.
VarIndexes == {s \in SeqsUpTo(FeatureIds, Cardinality(FeatureIds)) : NoDup(s)}

\* The dataset stored at the n-th path: one observation, whose entry in a
\* column tells the dataset and the feature.
StoredDataset(n, index) ==
    [var_index |-> index,
     X |-> <<[j \in 1..Len(index) |-> 10 * n + IdNumber(index[j])]>>]

Event(op, n) == [op |-> op, k |-> n]

\* join="outer", the default of pd.concat: the labels of the first index,
\* then those the others add.
RECURSIVE OuterJoin(_)
OuterJoin(indices) ==
    IF Len(indices) = 1 THEN indices[1]
    ELSE LET left == OuterJoin(SubSeq(indices, 1, Len(indices) - 1))
             right == indices[Len(indices)]
         IN  left \o SelectSeq(right, LAMBDA id : id \notin Range(left))

\* pd.concat(var_indices, axis=1, join="inner").index: the first index
\* intersected with each of the others in turn, Index.intersection keeping
\* the order of its left operand.
RECURSIVE InnerJoin(_)
InnerJoin(indices) ==
    IF Len(indices) = 1 THEN indices[1]
    ELSE LET left == InnerJoin(SubSeq(indices, 1, Len(indices) - 1))
             right == indices[Len(indices)]
         IN  SelectSeq(left, LAMBDA id : id \in Range(right))

Position(index, id) == CHOOSE j \in 1..Len(index) : index[j] = id

\* adata[:, var_intersect]: the columns with these labels, in this order.
SelectFeatures(data, labels) ==
    [var_index |-> labels,
     X |-> [i \in 1..Len(data.X) |->
              [j \in 1..Len(labels) |-> data.X[i][Position(data.var_index, labels[j])]]]]

\* write_anndata moved out of the loop body: only the last dataset is written.
AfterSubsetDedented(n, count) == IF n < count THEN "read" ELSE "write"

\* Line 96 follows line 90 in the loop body.
AfterSubset(n, count) == "write"

\* get_feature_intersection, lines 234 to 242: the var index of one path,
\* read from the zarr group or from the h5ad file, as a Series.
ReadVar ==
    /\ pc = "read_var"
    /\ var_indices' = Append(var_indices, paths[k].var_index)
    /\ log' = Append(log, Event("read_var", k))
    /\ IF k < Len(paths)
       THEN k' = k + 1 /\ pc' = pc
       ELSE k' = k /\ pc' = "join"
    /\ UNCHANGED <<paths, save_h5ad, var_intersect, cur, files, obj_vars>>

\* get_feature_intersection, lines 244 to 246, and the start of the loop.
Join ==
    /\ pc = "join"
    /\ var_intersect' = InnerJoin(var_indices)
    /\ k' = 1
    /\ pc' = "read"
    /\ UNCHANGED <<paths, save_h5ad, var_indices, cur, files, log, obj_vars>>

\* Line 88: read_anndata(path).
ReadAnndata ==
    /\ pc = "read"
    /\ cur' = paths[k]
    /\ log' = Append(log, Event("read", k))
    /\ pc' = "subset"
    /\ UNCHANGED <<paths, save_h5ad, k, var_indices, var_intersect, files, obj_vars>>

\* Line 90; a label that the dataset does not have raises KeyError.
Subset ==
    /\ pc = "subset"
    /\ IF Range(var_intersect) \subseteq Range(cur.var_index)
       THEN /\ cur' = SelectFeatures(cur, var_intersect)
            /\ IF AfterSubset(k, Len(paths)) = "write"
               THEN pc' = (IF save_h5ad THEN "write_h5ad" ELSE "write_zarr") /\ k' = k
               ELSE pc' = "read" /\ k' = k + 1
       ELSE pc' = "failed" /\ UNCHANGED <<cur, k>>
    /\ UNCHANGED <<paths, save_h5ad, var_indices, var_intersect, files, log, obj_vars>>

\* write_anndata, line 265.
WriteH5ad ==
    /\ pc = "write_h5ad"
    /\ files' = files \cup {[k |-> k, format |-> "h5ad", data |-> cur]}
    /\ log' = Append(log, Event("write_h5ad", k))
    /\ pc' = "write_zarr"
    /\ UNCHANGED <<paths, save_h5ad, k, var_indices, var_intersect, cur, obj_vars>>

\* write_anndata, line 267, and the next turn of the loop.
WriteZarr ==
    /\ pc = "write_zarr"
    /\ files' = files \cup {[k |-> k, format |-> "zarr", data |-> cur]}
    /\ log' = Append(log, Event("write_zarr", k))
    /\ IF k < Len(paths)
       THEN k' = k + 1 /\ pc' = "read"
       ELSE k' = k /\ pc' = "done"
    /\ UNCHANGED <<paths, save_h5ad, var_indices, var_intersect, cur, obj_vars>>

\* A read or a write raises: nothing catches it, and nothing it wrote before
\* is removed.
IOError ==
    /\ pc \in {"read_var", "read", "write_h5ad", "write_zarr"}
    /\ pc' = "failed"
    /\ UNCHANGED <<paths, save_h5ad, k, var_indices, var_intersect, cur, files,
                   log, obj_vars>>

InitIntersect ==
    /\ \E n \in 1..MaxPaths : \E indexes \in [1..n -> VarIndexes] :
          paths = [i \in 1..n |-> StoredDataset(i, indexes[i])]
    /\ save_h5ad \in BOOLEAN
    /\ pc = "read_var"
    /\ k = 1
    /\ var_indices = <<>>
    /\ var_intersect = <<>>
    /\ cur = NoData
    /\ files = {}
    /\ log = <<>>
    /\ adata = NoData
    /\ orig = NoData
    /\ call = NoCall
    /\ ncalls = 0
    /\ shifts = <<>>

NextIntersect ==
    \/ ReadVar
    \/ Join
    \/ ReadAnndata
    \/ Subset
    \/ WriteH5ad
    \/ WriteZarr
    \/ IOError

SpecIntersect == InitIntersect /\ [][NextIntersect]_vars

(***************************************************************************)
(* Properties of reindex_anndata.                                          *)
(***************************************************************************)
\* The decimal string of an integer: digits only, a "-" before a negative
\* number, no "+", no leading zero, and zero written "0".
IsCanonical(s) ==
    /\ IsIntLiteral(s)
    /\ (HasSign(s) => s[1] = "-" /\ DigitsVal(Unsigned(s)) # 0)
    /\ (Len(Unsigned(s)) > 1 => Unsigned(s)[1] # "0")

IsDecimalOf(s, n) == IsCanonical(s) /\ ParseInt(s) = n

SameButObsIndex(d, e) ==
    /\ d.X = e.X
    /\ d.var = e.var
    /\ d.obs = e.obs
    /\ d.obsm = e.obsm
    /\ d.uns = e.uns

\* C4: a reindex of a dataset whose identifiers are all integer literals
\* returns a dataset with the same rows in the same order whose i-th
\* identifier is the decimal string of int(i-th identifier) + offset, and
\* with X, var, the obs columns, obsm and uns as they were.
C4_ReindexResult ==
    (Called("reindex_anndata") /\ AllIntLiterals(call.before.obs_index)) =>
        /\ call.err = "none"
        /\ adata = call.ret
        /\ Len(call.ret.obs_index) = Len(call.before.obs_index)
        /\ \A i \in 1..Len(call.before.obs_index) :
              IsDecimalOf(call.ret.obs_index[i],
                          ParseInt(call.before.obs_index[i]) + call.args.offset)
        /\ SameButObsIndex(call.ret, call.before)

\* A reindex that returned, of two rows with different identifiers, the
\* first of them written with a leading zero or a sign.
C4_Witness ==
    /\ Returned("reindex_anndata")
    /\ Len(call.before.obs_index) = 2
    /\ call.before.obs_index[1] # call.before.obs_index[2]
    /\ ~IsCanonical(call.before.obs_index[1])
    /\ call.ret.obs_index[1] # call.ret.obs_index[2]

\* A reindex by k followed by a reindex by -k, both returned.
RoundTrip ==
    /\ ncalls = 2
    /\ Len(shifts) = 2
    /\ shifts[2] = 0 - shifts[1]

\* C5 as stated: the round trip recovers every accepted identifier string
\* for string.
C5_RoundTripExact == RoundTrip => adata.obs_index = orig.obs_index

\* C5 amended: the round trip yields, row by row, the decimal string of the
\* original identifier's value, which is the original string exactly when
\* that was already a decimal string.
C5_RoundTripCanonical ==
    RoundTrip =>
        /\ Len(adata.obs_index) = Len(orig.obs_index)
        /\ \A i \in 1..Len(adata.obs_index) :
              /\ IsDecimalOf(adata.obs_index[i], ParseInt(orig.obs_index[i]))
              /\ (adata.obs_index[i] = orig.obs_index[i]
                    <=> IsCanonical(orig.obs_index[i]))

\* A round trip over one identifier it recovers and one it does not.
C5_Witness ==
    /\ RoundTrip
    /\ Len(adata.obs_index) = 2
    /\ adata.obs_index[1] = orig.obs_index[1]
    /\ adata.obs_index[2] # orig.obs_index[2]

\* C9: a transformation leaves the dataset passed to it as it was.
C9_NoArgumentMutation == call.op # "none" => call.after = call.before

(***************************************************************************)
(* Properties of the concatenation.                                        *)
(***************************************************************************)
ConcatOps ==
    {"concat_features", "concat_matrix_from_obs", "concat_matrix_from_obsm",
     "concat_matrix_from_cell2location"}

\* The last call built and returned a concatenated dataset.
Concatenated ==
    call.op \in ConcatOps /\ call.err = "none" /\ call.ext # NoTable

IsSparse(X) == X.kind \in {"csr", "csc"}

\* C1: the concatenated matrix has the rows of the input, its columns first,
\* in their order and with their values, then the columns of the annotation
\* table in the table's order, in the sparse and in the dense branch; the
\* feature axis lists the labels in the same order.
C1_ConcatShapeAndOrder ==
    Concatenated =>
        LET old == call.before.X.vals
            ann == call.ext
            new == call.ret.X.vals
        IN  /\ Len(new) = Len(old)
            /\ \A i \in 1..Len(old) :
                  /\ Len(new[i]) = Len(old[i]) + Len(ann.columns)
                  /\ \A j \in 1..Len(old[i]) : new[i][j] = old[i][j]
                  /\ \A j \in 1..Len(ann.columns) :
                        new[i][Len(old[i]) + j] = ann.values[i][j]
            /\ Len(call.ret.var.index) = Len(call.before.var.index) + Len(ann.columns)
            /\ \A j \in 1..Len(call.before.var.index) :
                  call.ret.var.index[j] = call.before.var.index[j]
            /\ \A j \in 1..Len(ann.columns) :
                  call.ret.var.index[Len(call.before.var.index) + j] = ann.columns[j]
            /\ IsSparse(call.ret.X) = IsSparse(call.before.X)

\* The labels A, B of two observations one-hot encoded onto the sparse
\* matrix [[1,2],[3,4]].
C1_Witness ==
    /\ Concatenated
    /\ call.op = "concat_features"
    /\ call.args.features = <<"obs", "/", "celltype">>
    /\ call.before.X = [kind |-> "csc", vals |-> <<<<1, 2>>, <<3, 4>>>>]
    /\ call.ret.X.vals = <<<<1, 2, 1, 0>>, <<3, 4, 0, 1>>>>

\* The names of the two flag columns of the last call, from its arguments.
PrevFlag ==
    IF call.op = "concat_features" THEN "is_gene"
    ELSE FlagName(call.args.feature_name)

NewFlag ==
    IF call.op = "concat_features" THEN "is_celltype"
    ELSE IF call.args.obs_feature_name # "" THEN FlagName(call.args.obs_feature_name)
    ELSE IF call.op = "concat_matrix_from_obs" THEN FlagName(call.args.obs)
    ELSE "is_celltype"

OldRows == 1..Len(call.before.var.index)

NewRows == (Len(call.before.var.index) + 1)..Len(call.ret.var.index)

Definite(name) ==
    /\ name \in DOMAIN call.ret.var.cols
    /\ \A j \in OldRows \cup NewRows : call.ret.var.cols[name][j] \in {"T", "F"}

\* C2 as stated: whatever the input and the two names, both flags and every
\* boolean column the input had are definite on every row, is_<feature_name>
\* is true on the original rows and false on the appended ones,
\* is_<annotation name> is true on the appended rows and false on the
\* original ones, and every boolean column the input had is false on the
\* appended rows.
C2_FlagsAsStated ==
    Concatenated =>
        /\ \A name \in {PrevFlag, NewFlag} \cup BoolKeys(call.before.var) :
              Definite(name)
        /\ \A j \in OldRows : call.ret.var.cols[PrevFlag][j] = "T"
        /\ \A j \in NewRows : call.ret.var.cols[PrevFlag][j] = "F"
        /\ \A j \in NewRows : call.ret.var.cols[NewFlag][j] = "T"
        /\ \A j \in OldRows : call.ret.var.cols[NewFlag][j] = "F"
        /\ \A name \in BoolKeys(call.before.var) :
              \A j \in NewRows : call.ret.var.cols[name][j] = "F"

\* C2 amended: both flags and every boolean column the input had are
\* definite on every row.  If the two names differ, is_<feature_name> is true
\* on the original rows and false on the appended ones, is_<annotation name>
\* is true on the appended rows and on an original row keeps the value the
\* input had there, false if it had none, and every other boolean column the
\* input had is false on the appended rows.  If the two names are the same,
\* the one flag is true on every row.
C2_FlagsTotal ==
    Concatenated =>
        /\ \A name \in {PrevFlag, NewFlag} \cup BoolKeys(call.before.var) :
              Definite(name)
        /\ \A j \in OldRows : call.ret.var.cols[PrevFlag][j] = "T"
        /\ \A j \in NewRows : call.ret.var.cols[NewFlag][j] = "T"
        /\ PrevFlag # NewFlag =>
              /\ \A j \in NewRows : call.ret.var.cols[PrevFlag][j] = "F"
              /\ \A j \in OldRows :
                    call.ret.var.cols[NewFlag][j] =
                        IF /\ NewFlag \in DOMAIN call.before.var.cols
                           /\ call.before.var.cols[NewFlag][j] = "T"
                        THEN "T" ELSE "F"
              /\ \A name \in BoolKeys(call.before.var) \ {NewFlag} :
                    \A j \in NewRows : call.ret.var.cols[name][j] = "F"

\* A second concatenation, onto the output of a first one that left the
\* boolean columns is_gene and is_celltype, under a new annotation name.
C2_Witness ==
    /\ Concatenated
    /\ ncalls = 2
    /\ {"is_gene", "is_celltype", "hv"} \subseteq BoolKeys(call.before.var)
    /\ PrevFlag = "is_gene"
    /\ NewFlag = "is_abund"
    /\ NewRows # {}

\* The rows of the annotation table the last call resolved, counted from
\* its arguments: for a companion file, the rows the sample filter keeps.
CompanionRows ==
    IF call.args.sample = NoSample THEN Len(call.args.file.values)
    ELSE Cardinality({i \in 1..Len(call.args.file.values) :
                         call.args.file.obs[call.args.sample[1]][i]
                             = call.args.sample[2]})

\* C7: a call that resolved an annotation table fails with the assertion,
\* returning no dataset, exactly when the table's row count differs from the
\* dataset's observation count; for the companion source the count is that
\* of the rows the sample filter keeps.
C7_RowCountPrecondition ==
    /\ (call.op \in ConcatOps /\ call.ext # NoTable) =>
          /\ (call.err = "AssertionError")
                <=> (Len(call.ext.values) # Len(call.before.obs_index))
          /\ call.err \in {"none", "AssertionError"}
          /\ call.err = "AssertionError" =>
                call.ret = NoData /\ adata = call.before
          /\ call.err = "none" => call.ret # NoData /\ adata = call.ret
    /\ (call.op = "concat_matrix_from_cell2location" /\ call.args.file # NoFile) =>
          /\ call.ext # NoTable
          /\ Len(call.ext.values) = CompanionRows
          /\ (call.err = "AssertionError")
                <=> (CompanionRows # Len(call.before.obs_index))

\* A companion file with one row more than the dataset, which the sample
\* filter brings to the dataset's count, and one it leaves too long.
C7_Witness ==
    /\ call.op = "concat_matrix_from_cell2location"
    /\ call.args.file # NoFile
    /\ Len(call.args.file.values) = Len(call.before.obs_index) + 1
    /\ \/ call.args.sample # NoSample /\ call.err = "none"
       \/ call.args.sample = NoSample /\ call.err = "AssertionError"

\* concat_features took one of its three branches.
Dispatched == call.err # "none" \/ call.ext # NoTable

HasPrefix(addr, word) == Len(addr) >= 2 /\ addr[1] = word /\ addr[2] = "/"

\* C8 as stated: concat_features concatenates exactly when the address ends
\* with .h5ad or starts with obs/ or obsm/, and otherwise returns the dataset
\* as it was, without an error.
C8_DispatchAsStated ==
    call.op = "concat_features" =>
        /\ Dispatched <=>
              \/ call.args.features[Len(call.args.features)] = ".h5ad"
              \/ HasPrefix(call.args.features, "obs")
              \/ HasPrefix(call.args.features, "obsm")
        /\ ~Dispatched => call.ret = call.before /\ adata = call.before

\* C8 amended: concat_features concatenates exactly when the address ends
\* with .h5ad and names an existing file, or starts with obs/ or obsm/, and
\* otherwise returns the dataset as it was, without an error.
C8_Dispatch ==
    call.op = "concat_features" =>
        /\ Dispatched <=>
              \/ /\ call.args.features[Len(call.args.features)] = ".h5ad"
                 /\ call.args.file # NoFile
              \/ HasPrefix(call.args.features, "obs")
              \/ HasPrefix(call.args.features, "obsm")
        /\ ~Dispatched =>
              /\ call.err = "none"
              /\ call.ret = call.before
              /\ adata = call.before

\* The address of a companion file that does not exist: nothing is done.
C8_Witness ==
    /\ call.op = "concat_features"
    /\ call.args.features = <<"c2l", ".h5ad">>
    /\ call.args.file = NoFile
    /\ call.err = "none"
    /\ adata = call.before

(***************************************************************************)
(* Properties of intersect_features.                                       *)
(***************************************************************************)
Joined == pc \in {"read", "subset", "write_h5ad", "write_zarr", "done"}

InEveryInput(id) == \A n \in 1..Len(paths) : id \in Range(paths[n].var_index)

\* C3: the intersection holds exactly the identifiers that every input has,
\* each once, in an order the inputs fix (that of the first input), and every
\* dataset written has that sequence as its feature axis, its columns being
\* the input's columns of those features.
C3_CommonFeatureAxis ==
    /\ Joined =>
          /\ Range(var_intersect) = {id \in FeatureIds : InEveryInput(id)}
          /\ NoDup(var_intersect)
          /\ \A i, j \in 1..Len(var_intersect) :
                i < j => Position(paths[1].var_index, var_intersect[i])
                            < Position(paths[1].var_index, var_intersect[j])
    /\ \A f \in files :
          /\ f.data.var_index = var_intersect
          /\ \A i \in 1..Len(f.data.X) :
                /\ Len(f.data.X[i]) = Len(var_intersect)
                /\ \A j \in 1..Len(var_intersect) :
                      f.data.X[i][j] = 10 * f.k + IdNumber(var_intersect[j])
    /\ pc = "done" =>
          \A n \in 1..Len(paths) : \E f \in files : f.k = n /\ f.format = "zarr"

\* Two inputs that list their two common features in opposite orders, with
\* one feature each that the other lacks, both written.
C3_Witness ==
    /\ pc = "done"
    /\ Len(paths) = 2
    /\ paths[1].var_index = <<"g3", "g1", "g2">>
    /\ paths[2].var_index = <<"g2", "g3">>
    /\ var_intersect = <<"g3", "g2">>

\* C6: when a step of the run fails, no output file of the run exists.
C6_NoOutputOnFailure == pc = "failed" => files = {}

IsInputAccess(e) == e.op \in {"read_var", "read"}

IsWrite(e) == e.op \in {"write_h5ad", "write_zarr"}

\* C10 as stated: every access to the input of a dataset comes after every
\* write of the output of the datasets before it.
C10_NoInterleaving ==
    \A i, j \in 1..Len(log) :
        (IsInputAccess(log[i]) /\ IsWrite(log[j]) /\ log[j].k < log[i].k) => j < i

\* C10 amended: get_feature_intersection first reads the var index of every
\* input, in argument order; after that each dataset is read, and written to
\* completion, before the next one is read.
C10_SequentialAfterLabelPass ==
    /\ \A i, j \in 1..Len(log) :
          (log[i].op = "read_var" /\ log[j].op # "read_var") => i < j
    /\ \A i, j \in 1..Len(log) :
          (log[i].op = "read_var" /\ log[j].op = "read_var" /\ log[i].k < log[j].k)
              => i < j
    /\ \A i, j \in 1..Len(log) :
          (log[i].op = "read" /\ IsWrite(log[j]) /\ log[j].k < log[i].k) => j < i
    /\ \A i, j \in 1..Len(log) :
          (IsWrite(log[i]) /\ log[j].op = "read" /\ log[j].k <= log[i].k) => j < i
    /\ \A i \in 1..Len(log) :
          log[i].op = "read" /\ log[i].k > 1 =>
              \E j \in 1..(i - 1) : log[j].op = "write_zarr" /\ log[j].k = log[i].k - 1
    /\ \A i, j \in 1..Len(log) :
          (log[i].op = "write_h5ad" /\ log[j].op = "write_zarr"
              /\ log[i].k = log[j].k) => i < j

\* A run over two datasets that wrote both, in both formats.
C10_Witness ==
    /\ pc = "done"
    /\ Len(paths) = 2
    /\ save_h5ad
    /\ Len(log) = 8

====
